---- MODULE Spec2Model ----
(***************************************************************************)
(* Model of contracts/FlareFTSOPriceOracle.sol: the bounded per-symbol     *)
(* price history, its staleness check, the 24h change and the owner-gated  *)
(* feed references.  One action is one transaction (or one view call); the *)
(* EVM executes transactions one at a time and a revert undoes every       *)
(* write, so a reverting call changes only the record of the last call.    *)
(***************************************************************************)
EXTENDS Integers, Sequences, FiniteSets, TLC

(* ------------------------------------------------------------------ *)
(* Program constants                                                  *)
(* ------------------------------------------------------------------ *)
MAX_HISTORY_LENGTH == 24

ONE_HOUR == 3600

BASIS_POINTS == 10000

(* ------------------------------------------------------------------ *)
(* Bounds of the exploration                                          *)
(* ------------------------------------------------------------------ *)
\* quotes the feed serves to the busiest symbol (past capacity by two)
MaxUpdates == 26

\* quotes the feed serves to every other symbol in the same run
SideUpdates == 1

\* block timestamp of the deployment block (Unix seconds, any value >= 1 hour)
StartTime == 100000

\* hours of block time explored after the deployment
Hours == 1

\* feed-side timestamp and epoch id of the first quote
FeedTime == 50000

FeedEpoch == 700

Symbols == {"XRP", "BTC"}

Prices == {0, 90, 100, 110}

ZERO == "0x0"

Addresses == {ZERO, "0xA1", "0xA2"}

Senders == {"deployer", "stranger"}

VARIABLES
    ftsoRegistry,     \* IFtsoRegistry public ftsoRegistry
    ftsoManager,      \* IFtsoManager public ftsoManager
    priceHistory,     \* mapping(string => PriceData[])
    lastUpdateTime,   \* mapping(string => uint256)
    owner,            \* Ownable's owner: the deployer
    now,              \* block.timestamp
    feed,             \* per symbol, the quotes the FTSO will serve next
    inserted,         \* per symbol, every sample pushed so far (history variable)
    updatedAt,        \* per symbol, block time of its latest successful update, 0 if none
    last              \* the last call, its outcome, return value and events, and
                      \* the external calls, writes and logs it made, in order

vars == <<ftsoRegistry, ftsoManager, priceHistory, lastUpdateTime, owner, now,
          feed, inserted, updatedAt, last>>

contractState == <<ftsoRegistry, ftsoManager, priceHistory, lastUpdateTime, owner>>

(* ------------------------------------------------------------------ *)
(* Data                                                               *)
(* ------------------------------------------------------------------ *)
PriceData(p, t, e) == [price |-> p, timestamp |-> t, epochId |-> e]

\* the k-th quote of a rising feed: price k, with its feed timestamp and epoch
CountingQuote(k) == PriceData(k, FeedTime + k, FeedEpoch + k)

CountingScript(n) == [k \in 1..n |-> CountingQuote(k)]

\* a two-quote feed with chosen prices
PriceScript(p, q) ==
    <<PriceData(p, FeedTime + 1, FeedEpoch + 1), PriceData(q, FeedTime + 2, FeedEpoch + 2)>>

\* The futures of the feed that are explored: XRP is served MaxUpdates rising
\* quotes and the other symbols SideUpdates, or every symbol is served the same
\* two prices.
FeedScripts ==
    { [s \in Symbols |-> IF s = "XRP" THEN CountingScript(MaxUpdates)
                                       ELSE CountingScript(SideUpdates)] }
    \cup
    { [s \in Symbols |-> PriceScript(p, q)] : p \in Prices, q \in Prices }

Ok(ret, events) == [status |-> "ok", ret |-> ret, events |-> events]

Revert(reason) == [status |-> reason, ret |-> <<>>, events |-> <<>>]

Call(op, arg, sender, out) ==
    [op |-> op, arg |-> arg, sender |-> sender, out |-> out, steps |-> <<>>]

Made(call, steps) == [call EXCEPT !.steps = steps]

(* ------------------------------------------------------------------ *)
(* Construction                                                       *)
(* ------------------------------------------------------------------ *)
\* slip: the second require is missing
ConstructorAcceptsRegistryOnly(_ftsoRegistry, _ftsoManager) ==
    _ftsoRegistry # ZERO

\* the two require()s of the constructor
ConstructorAccepts(_ftsoRegistry, _ftsoManager) ==
    /\ _ftsoRegistry # ZERO
    /\ _ftsoManager # ZERO

Init ==
    /\ \E _ftsoRegistry \in Addresses, _ftsoManager \in Addresses :
          /\ ConstructorAccepts(_ftsoRegistry, _ftsoManager)
          /\ ftsoRegistry = _ftsoRegistry
          /\ ftsoManager = _ftsoManager
    /\ priceHistory = [s \in Symbols |-> <<>>]
    /\ lastUpdateTime = [s \in Symbols |-> 0]
    /\ owner = "deployer"
    /\ now = StartTime
    /\ feed \in FeedScripts
    /\ inserted = [s \in Symbols |-> <<>>]
    /\ updatedAt = [s \in Symbols |-> 0]
    /\ last = Call("constructor", "", "deployer", Ok(<<>>, <<>>))

(* ------------------------------------------------------------------ *)
(* updatePriceData                                                    *)
(* ------------------------------------------------------------------ *)
\* slip: swap-and-pop, the newest entry overwrites the oldest
ShiftLeftSwap(h, i) == [h EXCEPT ![1] = h[Len(h)]]

\* slip: the loop stops one entry early
RECURSIVE ShiftLeftShort(_, _)
ShiftLeftShort(h, i) ==
    IF i < Len(h) - 2
    THEN ShiftLeftShort([h EXCEPT ![i + 1] = h[i + 2]], i + 1)
    ELSE h

\* for (uint i = 0; i < history.length - 1; i++) history[i] = history[i + 1];
\* i is the 0-based loop counter, h[i + 1] is Solidity's history[i]
RECURSIVE ShiftLeft(_, _)
ShiftLeft(h, i) ==
    IF i < Len(h) - 1
    THEN ShiftLeft([h EXCEPT ![i + 1] = h[i + 2]], i + 1)
    ELSE h

\* history.pop()
Pop(h) == SubSeq(h, 1, Len(h) - 1)

\* slip: the oldest entry is dropped one push too early
EvictEarly(history) ==
    IF Len(history) >= MAX_HISTORY_LENGTH - 1
    THEN Pop(ShiftLeft(history, 0))
    ELSE history

\* slip: > for >=
EvictLate(history) ==
    IF Len(history) > MAX_HISTORY_LENGTH
    THEN Pop(ShiftLeft(history, 0))
    ELSE history

\* the history after "remove old entries if max length reached"
Evict(history) ==
    IF Len(history) >= MAX_HISTORY_LENGTH
    THEN Pop(ShiftLeft(history, 0))
    ELSE history

\* history.push(PriceData({price, timestamp, epochId: currentEpochId}))
Push(history, price, timestamp, currentEpochId) ==
    Append(history, PriceData(price, timestamp, currentEpochId))

\* slip: the time the next update is due is stored
NewLastUpdateTimeDue(timestamp, blockTimestamp) == blockTimestamp + ONE_HOUR

\* slip: the feed's timestamp for the block's
NewLastUpdateTimeFeed(timestamp, blockTimestamp) == timestamp

\* lastUpdateTime[symbol] = block.timestamp
NewLastUpdateTime(timestamp, blockTimestamp) == blockTimestamp

\* slip: the block's timestamp is logged for the feed's
PriceUpdatedBlockTime(symbol, price, timestamp, epochId) ==
    [name |-> "PriceUpdated", symbol |-> symbol, price |-> price,
     timestamp |-> now, epochId |-> epochId]

\* emit PriceUpdated(symbol, price, timestamp, currentEpochId)
PriceUpdated(symbol, price, timestamp, epochId) ==
    [name |-> "PriceUpdated", symbol |-> symbol, price |-> price,
     timestamp |-> timestamp, epochId |-> epochId]

\* answer: what the two external reads do in this transaction
FeedAnswers == {"ok", "priceReadFails", "epochReadFails"}

\* slip: a failed epoch read is swallowed
FeedErrorEpochIgnored(answer) ==
    IF answer = "priceReadFails" THEN "getCurrentPrice failed" ELSE ""

\* the error of the first external read that fails, which the call propagates:
\* getCurrentTokenPrice(symbol), then ftsoManager.getCurrentEpochId()
FeedError(answer) ==
    IF answer = "priceReadFails" THEN "getCurrentPrice failed"
    ELSE IF answer = "epochReadFails" THEN "getCurrentEpochId failed"
    ELSE ""

\* slip: the epoch is read after the history was written
UpdateStepsEpochLate(answer) ==
    <<"call getCurrentPrice">> \o
    (IF answer = "priceReadFails" THEN <<>>
     ELSE <<"write priceHistory", "call getCurrentEpochId">> \o
          (IF answer = "epochReadFails" THEN <<>>
           ELSE <<"write lastUpdateTime", "emit PriceUpdated">>))

\* what one call of updatePriceData does, statement by statement, up to the
\* external read that fails
UpdateSteps(answer) ==
    <<"call getCurrentPrice">> \o
    (IF answer = "priceReadFails" THEN <<>>
     ELSE <<"call getCurrentEpochId">> \o
          (IF answer = "epochReadFails" THEN <<>>
           ELSE <<"write priceHistory", "write lastUpdateTime", "emit PriceUpdated">>))

updatePriceData(symbol, answer) ==
    /\ \/ /\ FeedError(answer) # ""
          /\ last' = Made(Call("updatePriceData", symbol, "any", Revert(FeedError(answer))),
                          UpdateSteps(answer))
          /\ UNCHANGED <<priceHistory, lastUpdateTime, feed, inserted, updatedAt>>
       \/ /\ FeedError(answer) = ""
          /\ feed[symbol] # <<>>
          /\ LET quote == Head(feed[symbol])
                 price == quote.price
                 timestamp == quote.timestamp
                 currentEpochId == quote.epochId
                 history == priceHistory[symbol]
             IN  /\ priceHistory' = [priceHistory EXCEPT ![symbol] =
                        Push(Evict(history), price, timestamp, currentEpochId)]
                 /\ lastUpdateTime' = [lastUpdateTime EXCEPT ![symbol] =
                        NewLastUpdateTime(timestamp, now)]
                 /\ last' = Made(Call("updatePriceData", symbol, "any",
                        Ok(<<>>, <<PriceUpdated(symbol, price, timestamp, currentEpochId)>>)),
                        UpdateSteps(answer))
                 /\ inserted' = [inserted EXCEPT ![symbol] = Append(@, quote)]
                 /\ updatedAt' = [updatedAt EXCEPT ![symbol] = now]
                 /\ feed' = [feed EXCEPT ![symbol] = Tail(@)]
    /\ UNCHANGED <<ftsoRegistry, ftsoManager, owner, now>>

(* ------------------------------------------------------------------ *)
(* Views                                                              *)
(* ------------------------------------------------------------------ *)
\* slip: the emptiness check of getLatestPriceData copied here
getPriceHistoryNonEmpty(symbol) ==
    IF ~(Len(priceHistory[symbol]) > 0)
    THEN Revert("No price data available")
    ELSE LET history == priceHistory[symbol]
         IN  Ok(<< [i \in 1..Len(history) |-> history[i].price],
                   [i \in 1..Len(history) |-> history[i].timestamp],
                   [i \in 1..Len(history) |-> history[i].epochId] >>, <<>>)

\* the three arrays filled by the copy loop
getPriceHistory(symbol) ==
    LET history == priceHistory[symbol]
        length == Len(history)
    IN  Ok(<< [i \in 1..length |-> history[i].price],
              [i \in 1..length |-> history[i].timestamp],
              [i \in 1..length |-> history[i].epochId] >>, <<>>)

\* slip: the oldest entry for the newest
getLatestPriceDataFirst(symbol) ==
    IF ~(Len(priceHistory[symbol]) > 0)
    THEN Revert("No price data available")
    ELSE LET latest == priceHistory[symbol][1]
         IN  Ok(<<latest.price, latest.timestamp, latest.epochId>>, <<>>)

getLatestPriceData(symbol) ==
    IF ~(Len(priceHistory[symbol]) > 0)
    THEN Revert("No price data available")
    ELSE LET history == priceHistory[symbol]
             latest == history[Len(history)]
         IN  Ok(<<latest.price, latest.timestamp, latest.epochId>>, <<>>)

\* the subtraction is checked: it reverts with Panic(0x11) below zero
needsUpdate(symbol) ==
    IF now < lastUpdateTime[symbol]
    THEN Revert("Panic(0x11)")
    ELSE Ok(<<(now - lastUpdateTime[symbol]) >= ONE_HOUR>>, <<>>)

\* the arithmetic of get24hPriceChange once the length check has passed
ChangeOf(history) ==
    LET currentPrice == history[Len(history)].price
        oldestPrice == history[1].price
    IN  IF oldestPrice = 0
        THEN Ok(<<0>>, <<>>)
        ELSE LET ratio == (currentPrice * BASIS_POINTS) \div oldestPrice
             IN  IF ratio < BASIS_POINTS
                 THEN Revert("Panic(0x11)")
                 ELSE Ok(<<ratio - BASIS_POINTS>>, <<>>)

\* slip: one sample is taken to be enough
get24hPriceChangeOneSample(symbol) ==
    IF ~(Len(priceHistory[symbol]) > 0)
    THEN Revert("Insufficient price history")
    ELSE ChangeOf(priceHistory[symbol])

\* slip: no guard before the division, which then fails with Panic(0x12)
get24hPriceChangeUnguarded(symbol) ==
    IF ~(Len(priceHistory[symbol]) > 1)
    THEN Revert("Insufficient price history")
    ELSE IF priceHistory[symbol][1].price = 0
    THEN Revert("Panic(0x12)")
    ELSE ChangeOf(priceHistory[symbol])

\* uint256 arithmetic is checked (pragma ^0.8.19): a difference below zero
\* reverts with Panic(0x11).  The prices of the model stay far below the
\* uint256 range, so the product currentPrice * 10000 never overflows here.
get24hPriceChange(symbol) ==
    LET history == priceHistory[symbol]
    IN  IF ~(Len(history) > 1)
        THEN Revert("Insufficient price history")
        ELSE LET currentPrice == history[Len(history)].price
                 oldestPrice == history[1].price
             IN  IF oldestPrice = 0
                 THEN Ok(<<0>>, <<>>)
                 ELSE LET ratio == (currentPrice * BASIS_POINTS) \div oldestPrice
                      IN  IF ratio < BASIS_POINTS
                          THEN Revert("Panic(0x11)")
                          ELSE Ok(<<ratio - BASIS_POINTS>>, <<>>)

CallGetPriceHistory(symbol) ==
    /\ last' = Call("getPriceHistory", symbol, "any", getPriceHistory(symbol))
    /\ UNCHANGED <<contractState, now, feed, inserted, updatedAt>>

CallGetLatestPriceData(symbol) ==
    /\ last' = Call("getLatestPriceData", symbol, "any", getLatestPriceData(symbol))
    /\ UNCHANGED <<contractState, now, feed, inserted, updatedAt>>

CallNeedsUpdate(symbol) ==
    /\ last' = Call("needsUpdate", symbol, "any", needsUpdate(symbol))
    /\ UNCHANGED <<contractState, now, feed, inserted, updatedAt>>

CallGet24hPriceChange(symbol) ==
    /\ last' = Call("get24hPriceChange", symbol, "any", get24hPriceChange(symbol))
    /\ UNCHANGED <<contractState, now, feed, inserted, updatedAt>>

\* return ftsoRegistry.getCurrentPrice(symbol)
getCurrentTokenPrice(symbol, answer) ==
    IF answer = "ok" /\ feed[symbol] # <<>>
    THEN Ok(<<Head(feed[symbol]).price, Head(feed[symbol]).timestamp>>, <<>>)
    ELSE Revert("getCurrentPrice failed")

\* slip: the quote read is also stored in the history
CallGetCurrentTokenPriceStoring(symbol, answer) ==
    /\ last' = Call("getCurrentTokenPrice", symbol, "any",
                    getCurrentTokenPrice(symbol, answer))
    /\ priceHistory' = [priceHistory EXCEPT ![symbol] =
           IF answer = "ok" /\ feed[symbol] # <<>>
           THEN Append(Evict(@), Head(feed[symbol]))
           ELSE @]
    /\ UNCHANGED <<ftsoRegistry, ftsoManager, lastUpdateTime, owner, now, feed,
                   inserted, updatedAt>>

CallGetCurrentTokenPrice(symbol, answer) ==
    /\ last' = Call("getCurrentTokenPrice", symbol, "any",
                    getCurrentTokenPrice(symbol, answer))
    /\ UNCHANGED <<contractState, now, feed, inserted, updatedAt>>

\* return ftsoRegistry.getSupportedSymbols()
getSupportedTokens == Ok(<<"XRP", "BTC">>, <<>>)

CallGetSupportedTokens ==
    /\ last' = Call("getSupportedTokens", "", "any", getSupportedTokens)
    /\ UNCHANGED <<contractState, now, feed, inserted, updatedAt>>

(* ------------------------------------------------------------------ *)
(* Owner-gated setters                                                *)
(* ------------------------------------------------------------------ *)
\* slip: the modifier is left off
onlyOwnerMissing(sender) == TRUE

\* Ownable's onlyOwner modifier
onlyOwner(sender) == sender = owner

updateFtsoRegistry(sender, _newRegistry) ==
    /\ IF ~onlyOwner(sender)
       THEN /\ last' = Call("updateFtsoRegistry", _newRegistry, sender,
                            Revert("Ownable: caller is not the owner"))
            /\ UNCHANGED ftsoRegistry
       ELSE IF ~(_newRegistry # ZERO)
       THEN /\ last' = Call("updateFtsoRegistry", _newRegistry, sender,
                            Revert("Invalid address"))
            /\ UNCHANGED ftsoRegistry
       ELSE /\ ftsoRegistry' = _newRegistry
            /\ last' = Call("updateFtsoRegistry", _newRegistry, sender, Ok(<<>>, <<>>))
    /\ UNCHANGED <<ftsoManager, priceHistory, lastUpdateTime, owner, now, feed,
                   inserted, updatedAt>>

updateFtsoManager(sender, _newManager) ==
    /\ IF ~onlyOwner(sender)
       THEN /\ last' = Call("updateFtsoManager", _newManager, sender,
                            Revert("Ownable: caller is not the owner"))
            /\ UNCHANGED ftsoManager
       ELSE IF ~(_newManager # ZERO)
       THEN /\ last' = Call("updateFtsoManager", _newManager, sender,
                            Revert("Invalid address"))
            /\ UNCHANGED ftsoManager
       ELSE /\ ftsoManager' = _newManager
            /\ last' = Call("updateFtsoManager", _newManager, sender, Ok(<<>>, <<>>))
    /\ UNCHANGED <<ftsoRegistry, priceHistory, lastUpdateTime, owner, now, feed,
                   inserted, updatedAt>>

(* ------------------------------------------------------------------ *)
(* Time                                                               *)
(* ------------------------------------------------------------------ *)
\* seconds between two blocks: just under the staleness threshold, or exactly it
BlockGaps == {ONE_HOUR - 1, ONE_HOUR}

\* a later block is mined: block.timestamp grows
NewBlock(gap) ==
    /\ now + gap <= StartTime + Hours * ONE_HOUR
    /\ now' = now + gap
    /\ last' = Call("newBlock", "", "any", Ok(<<>>, <<>>))
    /\ UNCHANGED <<contractState, feed, inserted, updatedAt>>

Next ==
    \/ \E symbol \in Symbols, answer \in FeedAnswers :
          updatePriceData(symbol, answer)
    \/ \E symbol \in Symbols : CallGetPriceHistory(symbol)
    \/ \E symbol \in Symbols : CallGetLatestPriceData(symbol)
    \/ \E symbol \in Symbols : CallNeedsUpdate(symbol)
    \/ \E symbol \in Symbols : CallGet24hPriceChange(symbol)
    \/ \E symbol \in Symbols, answer \in {"ok", "priceReadFails"} :
          CallGetCurrentTokenPrice(symbol, answer)
    \/ CallGetSupportedTokens
    \/ \E sender \in Senders, a \in Addresses : updateFtsoRegistry(sender, a)
    \/ \E sender \in Senders, a \in Addresses : updateFtsoManager(sender, a)
    \/ \E gap \in BlockGaps : NewBlock(gap)

Spec == Init /\ [][Next]_vars

(* ------------------------------------------------------------------ *)
(* Properties                                                         *)
(* ------------------------------------------------------------------ *)
Min(a, b) == IF a < b THEN a ELSE b

\* the last min(n, 24) samples pushed for the symbol, oldest first
Retained(symbol) ==
    LET n == Len(inserted[symbol])
        k == Min(n, MAX_HISTORY_LENGTH)
    IN  SubSeq(inserted[symbol], n - k + 1, n)

Column(samples, field) == [i \in 1..Len(samples) |-> samples[i][field]]

Evicted(symbol) == Len(inserted[symbol]) > MAX_HISTORY_LENGTH

IsCall(op) == last.op = op

\* C1: in every reachable state every symbol's stored history has at most 24
\* samples.
C1_HistoryBounded ==
    \A s \in Symbols : Len(priceHistory[s]) <= 24

\* a full history that has already evicted a sample
C1_Witness ==
    \E s \in Symbols : Len(priceHistory[s]) = 24 /\ Len(inserted[s]) = 26

\* C2: after n successful inserts, getPriceHistory returns exactly the last
\* min(n, 24) inserted samples, oldest first, as three arrays of their prices,
\* timestamps and epoch ids; a call that has just returned returned that.
C2_HistoryIsLastInserted ==
    /\ \A s \in Symbols :
          getPriceHistory(s) =
              Ok(<< Column(Retained(s), "price"),
                    Column(Retained(s), "timestamp"),
                    Column(Retained(s), "epochId") >>, <<>>)
    /\ IsCall("getPriceHistory") =>
          /\ last.out.status = "ok"
          /\ last.out.ret[1] = Column(Retained(last.arg), "price")
          /\ last.out.ret[2] = Column(Retained(last.arg), "timestamp")
          /\ last.out.ret[3] = Column(Retained(last.arg), "epochId")

\* prices 1..25 were inserted and the read returned [2, 3, ..., 25]
C2_Witness ==
    /\ IsCall("getPriceHistory")
    /\ Column(inserted[last.arg], "price") = [i \in 1..25 |-> i]
    /\ last.out.ret[1] = [i \in 1..24 |-> i + 1]

\* C3: with at least 2 samples and oldest.price > 0, get24hPriceChange returns
\* the signed value trunc(newest.price * 10000 / oldest.price) - 10000, for a
\* rise and for a fall alike.
C3_SignedChange ==
    \A s \in Symbols :
        LET h == priceHistory[s]
        IN  (Len(h) >= 2 /\ h[1].price > 0) =>
               get24hPriceChange(s) =
                   Ok(<<((h[Len(h)].price * 10000) \div h[1].price) - 10000>>, <<>>)

\* C4: getLatestPriceData fails with "No price data available" exactly when the
\* symbol was never updated, and otherwise returns the sample pushed by its most
\* recent successful update.
C4_LatestIsLastInserted ==
    /\ \A s \in Symbols :
          LET n == Len(inserted[s])
          IN  IF n = 0
              THEN getLatestPriceData(s) = Revert("No price data available")
              ELSE getLatestPriceData(s) =
                       Ok(<<inserted[s][n].price, inserted[s][n].timestamp,
                            inserted[s][n].epochId>>, <<>>)
    /\ IsCall("getLatestPriceData") =>
          ((last.out.status = "No price data available") <=> (inserted[last.arg] = <<>>))

C4_Witness ==
    /\ IsCall("getLatestPriceData")
    /\ last.out.status = "ok"
    /\ Evicted(last.arg)
    /\ last.out.ret[1] = Len(inserted[last.arg])

\* C5: get24hPriceChange fails with "Insufficient price history" when the symbol
\* has had 0 or 1 successful updates, and never with that error after 2 or more.
C5_InsufficientHistory ==
    /\ \A s \in Symbols :
          (get24hPriceChange(s).status = "Insufficient price history")
              <=> (Len(inserted[s]) < 2)
    /\ IsCall("get24hPriceChange") =>
          ((last.out.status = "Insufficient price history")
              <=> (Len(inserted[last.arg]) < 2))

C5_Witness ==
    /\ IsCall("get24hPriceChange")
    /\ Len(inserted[last.arg]) = 1
    /\ last.out.status = "Insufficient price history"

\* C6: with at least 2 samples and an oldest retained price of 0,
\* get24hPriceChange returns 0 whatever the newest price is, and does not fail.
C6_ZeroOldestGivesZero ==
    /\ \A s \in Symbols :
          (Len(inserted[s]) >= 2 /\ Retained(s)[1].price = 0) =>
              get24hPriceChange(s) = Ok(<<0>>, <<>>)
    /\ (/\ IsCall("get24hPriceChange")
        /\ Len(inserted[last.arg]) >= 2
        /\ Retained(last.arg)[1].price = 0) => last.out = Ok(<<0>>, <<>>)

C6_Witness ==
    /\ IsCall("get24hPriceChange")
    /\ Len(inserted[last.arg]) = 2
    /\ inserted[last.arg][1].price = 0
    /\ inserted[last.arg][2].price = 110
    /\ last.out = Ok(<<0>>, <<>>)

\* C7: needsUpdate is true before any update of the symbol, false right after a
\* successful update, and after an update made at block time t it is true
\* exactly when now - t >= 1 hour (t is the block time, not the feed timestamp).
C7_NeedsUpdate ==
    /\ \A s \in Symbols :
          IF inserted[s] = <<>>
          THEN needsUpdate(s) = Ok(<<TRUE>>, <<>>)
          ELSE needsUpdate(s) = Ok(<<now - updatedAt[s] >= 3600>>, <<>>)
    /\ (IsCall("updatePriceData") /\ last.out.status = "ok") =>
          needsUpdate(last.arg) = Ok(<<FALSE>>, <<>>)
    /\ (IsCall("needsUpdate") /\ inserted[last.arg] # <<>>) =>
          last.out.ret[1] = (now - updatedAt[last.arg] >= 3600)

\* the symbol was updated, exactly one hour passed, and the call answered true
C7_Witness ==
    /\ IsCall("needsUpdate")
    /\ inserted[last.arg] # <<>>
    /\ now - updatedAt[last.arg] = 3600
    /\ last.out = Ok(<<TRUE>>, <<>>)

Setters == {"updateFtsoRegistry", "updateFtsoManager"}

\* C8: a setter called by anyone but the owner fails with "Ownable: caller is not
\* the owner" and changes neither reference, no history and no last update time;
\* a reference changes only in a successful setter call made by the owner.
C8_OnlyOwnerRepoints ==
    [][ /\ (last'.op \in Setters /\ last'.sender # owner) =>
              /\ last'.out.status = "Ownable: caller is not the owner"
              /\ UNCHANGED contractState
        /\ (ftsoRegistry' # ftsoRegistry \/ ftsoManager' # ftsoManager) =>
              /\ last'.op \in Setters
              /\ last'.sender = owner
              /\ last'.out.status = "ok" ]_vars

\* a stranger asked for a different, valid registry and was refused
C8_Witness ==
    /\ IsCall("updateFtsoRegistry")
    /\ last.sender = "stranger"
    /\ last.arg \notin {ZERO, ftsoRegistry}
    /\ last.out.status = "Ownable: caller is not the owner"

\* C9: when the price read or the epoch read fails, updatePriceData fails with
\* the feed's error, emits nothing, reads no further quote and leaves every
\* history, every last update time and both references unchanged.
C9_FeedFailureChangesNothing ==
    [][ (\E s \in Symbols, a \in {"priceReadFails", "epochReadFails"} :
             updatePriceData(s, a)) =>
           /\ last'.op = "updatePriceData"
           /\ last'.out.status \in {"getCurrentPrice failed", "getCurrentEpochId failed"}
           /\ last'.out.events = <<>>
           /\ UNCHANGED <<contractState, feed, inserted, updatedAt>> ]_vars

\* the epoch read failed for a symbol that has samples and a quote waiting
C9_Witness ==
    /\ IsCall("updatePriceData")
    /\ last.out.status = "getCurrentEpochId failed"
    /\ priceHistory[last.arg] # <<>>
    /\ feed[last.arg] # <<>>

\* the complete result of one insert: the oldest sample dropped at capacity,
\* the others in their order, the new sample last
PostInsert(h, sample) ==
    Append(IF Len(h) >= 24 THEN Tail(h) ELSE h, sample)

\* C10: every step leaves each symbol's history as it was or replaces it by the
\* complete result of one insert, and changes at most one symbol's history; so
\* a read never finds a partly shifted history.
C10_UpdateAtomic ==
    [][ /\ \A s \in Symbols :
              \/ priceHistory'[s] = priceHistory[s]
              \/ /\ feed[s] # <<>>
                 /\ priceHistory'[s] = PostInsert(priceHistory[s], Head(feed[s]))
        /\ Cardinality({s \in Symbols : priceHistory'[s] # priceHistory[s]}) <= 1 ]_vars

\* a read of the change made right after the history of the symbol was shifted
C10_Witness ==
    /\ IsCall("get24hPriceChange")
    /\ Evicted(last.arg)
    /\ last.out.status = "ok"

Reads == {"getPriceHistory", "getLatestPriceData", "get24hPriceChange", "needsUpdate",
          "getCurrentTokenPrice", "getSupportedTokens"}

\* C11: an update of one symbol leaves the history and the last update time of
\* every other symbol unchanged, and the six reads (getCurrentTokenPrice among
\* them) change no history, no last update time, no reference and no owner.
C11_FrameAndPureReads ==
    [][ /\ last'.op = "updatePriceData" =>
              \A s \in Symbols \ {last'.arg} :
                  /\ priceHistory'[s] = priceHistory[s]
                  /\ lastUpdateTime'[s] = lastUpdateTime[s]
        /\ last'.op \in Reads => UNCHANGED contractState ]_vars

\* XRP was just updated while BTC, updated in an earlier block, kept its state
C11_Witness ==
    /\ IsCall("updatePriceData")
    /\ last.out.status = "ok"
    /\ last.arg = "XRP"
    /\ priceHistory["BTC"] # <<>>
    /\ lastUpdateTime["BTC"] < lastUpdateTime["XRP"]

\* C12: getPriceHistory never fails, for any symbol in any reachable state; its
\* three arrays always have the length of the stored history, and for a symbol
\* that was never updated they are three empty arrays.
C12_HistoryReadNeverFails ==
    /\ \A s \in Symbols :
          LET out == getPriceHistory(s)
          IN  /\ out.status = "ok"
              /\ Len(out.ret) = 3
              /\ \A c \in 1..3 : Len(out.ret[c]) = Len(priceHistory[s])
              /\ inserted[s] = <<>> => out.ret = << <<>>, <<>>, <<>> >>
    /\ IsCall("getPriceHistory") =>
          /\ last.out.status = "ok"
          /\ \A c \in 1..3 : Len(last.out.ret[c]) = Len(priceHistory[last.arg])

\* the history of a symbol never updated was read, another symbol having samples
C12_Witness ==
    /\ IsCall("getPriceHistory")
    /\ inserted[last.arg] = <<>>
    /\ last.out = Ok(<< <<>>, <<>>, <<>> >>, <<>>)
    /\ \E s \in Symbols : priceHistory[s] # <<>>

Abs(x) == IF x < 0 THEN 0 - x ELSE x

\* C13: for every oldest price > 0 and every newest price, get24hPriceChange
\* returns a value r that lies within 1 basis point of the exact change
\* e = newest * 10000 / oldest - 10000 and is no further from zero than e
\* (with N = newest * 10000 - 10000 * oldest: |r| * oldest <= |N| and
\* |N - r * oldest| < oldest), for rises and for falls.
C13_TruncationBias ==
    \A s \in Symbols :
        LET h == priceHistory[s]
            oldest == h[1].price
            exactTimesOldest == h[Len(h)].price * 10000 - 10000 * oldest
            out == get24hPriceChange(s)
        IN  (Len(h) >= 2 /\ oldest > 0) =>
               /\ out.status = "ok"
               /\ Abs(out.ret[1]) * oldest <= Abs(exactTimesOldest)
               /\ Abs(exactTimesOldest - out.ret[1] * oldest) < oldest

\* what holds of the references in every step, whoever calls: neither is ever
\* null, and a successful setter call stores its argument in its own reference
\* and leaves the other reference alone
ReferencesKept ==
    /\ ftsoRegistry # ZERO /\ ftsoManager # ZERO
    /\ ftsoRegistry' # ZERO /\ ftsoManager' # ZERO
    /\ (last'.op = "updateFtsoRegistry" /\ last'.out.status = "ok") =>
          /\ last'.sender = owner
          /\ ftsoRegistry' = last'.arg
          /\ UNCHANGED ftsoManager
    /\ (last'.op = "updateFtsoManager" /\ last'.out.status = "ok") =>
          /\ last'.sender = owner
          /\ ftsoManager' = last'.arg
          /\ UNCHANGED ftsoRegistry

\* C14 as claimed: both references are non-null in every reachable state, a
\* successful owner call of a setter stores its argument and leaves the other
\* reference unchanged, and a setter called with the null reference fails with
\* "Invalid address", leaving both references unchanged.
C14_NullAlwaysInvalidAddress ==
    [][ /\ ReferencesKept
        /\ (last'.op \in Setters /\ last'.arg = ZERO) =>
              /\ last'.out.status = "Invalid address"
              /\ UNCHANGED <<ftsoRegistry, ftsoManager>> ]_vars

\* C14 as amended: as above, but a setter called with the null reference fails
\* with "Invalid address" when the owner calls it, and with "Ownable: caller is
\* not the owner" when anyone else does; both references are unchanged either way.
C14_ReferencesNonNull ==
    [][ /\ ReferencesKept
        /\ (last'.op \in Setters /\ last'.arg = ZERO) =>
              /\ last'.out.status = IF last'.sender = owner
                                    THEN "Invalid address"
                                    ELSE "Ownable: caller is not the owner"
              /\ UNCHANGED <<ftsoRegistry, ftsoManager>> ]_vars

\* the owner passed the null reference to updateFtsoManager and was refused
C14_Witness ==
    /\ IsCall("updateFtsoManager")
    /\ last.sender = owner
    /\ last.arg = ZERO
    /\ last.out.status = "Invalid address"
    /\ ftsoManager # ZERO

FeedCalls == {"call getCurrentPrice", "call getCurrentEpochId"}

Writes == {"write priceHistory", "write lastUpdateTime"}

UpdateSucceeded == IsCall("updatePriceData") /\ last.out.status = "ok"

\* C15: in one call of updatePriceData every feed read comes before the first
\* write of the history or of the last update time, and a call that writes has
\* made both reads.
C15_FeedReadsBeforeWrites ==
    IsCall("updatePriceData") =>
        LET st == last.steps
        IN  /\ \A i \in 1..Len(st), j \in 1..Len(st) :
                  (st[i] \in Writes /\ st[j] \in FeedCalls) => j < i
            /\ (\E i \in 1..Len(st) : st[i] \in Writes) =>
                  \A c \in FeedCalls : \E j \in 1..Len(st) : st[j] = c
            /\ (last.out.status = "ok") <=> (\E i \in 1..Len(st) : st[i] \in Writes)

\* the first update of a symbol succeeded: two reads, then two writes
C15_Witness ==
    /\ UpdateSucceeded
    /\ Len(inserted[last.arg]) = 1
    /\ Len(last.steps) = 5
    /\ last.steps[2] = "call getCurrentEpochId"
    /\ last.steps[3] = "write priceHistory"

\* C16: a successful updatePriceData emits exactly one PriceUpdated, as its last
\* step after both writes, carrying the symbol and the price, timestamp and
\* epoch id the feed answered; these are the sample just appended and what
\* getLatestPriceData returns right afterwards.
C16_OnePriceUpdated ==
    UpdateSucceeded =>
        LET s == last.arg
            ev == last.out.events
            quote == inserted[s][Len(inserted[s])]
            h == priceHistory[s]
        IN  /\ Len(ev) = 1
            /\ ev[1] = [name |-> "PriceUpdated", symbol |-> s, price |-> quote.price,
                        timestamp |-> quote.timestamp, epochId |-> quote.epochId]
            /\ h[Len(h)] = [price |-> ev[1].price, timestamp |-> ev[1].timestamp,
                            epochId |-> ev[1].epochId]
            /\ getLatestPriceData(s) =
                   Ok(<<ev[1].price, ev[1].timestamp, ev[1].epochId>>, <<>>)
            /\ last.steps[Len(last.steps)] = "emit PriceUpdated"
            /\ Cardinality({i \in 1..Len(last.steps) :
                               last.steps[i] = "emit PriceUpdated"}) = 1

\* an update that evicted the oldest sample emitted its event
C16_Witness ==
    /\ UpdateSucceeded
    /\ Evicted(last.arg)
    /\ last.out.events[1].price = 26
    /\ last.out.events[1].timestamp # now

\* C17: for every symbol the last update time is positive exactly when its
\* history is non-empty, it never exceeds the block time, and so needsUpdate
\* never fails on its subtraction.
C17_LastUpdateConsistent ==
    /\ \A s \in Symbols :
          /\ (lastUpdateTime[s] > 0) <=> (priceHistory[s] # <<>>)
          /\ lastUpdateTime[s] <= now
          /\ needsUpdate(s).status = "ok"
    /\ IsCall("needsUpdate") => last.out.status = "ok"

\* one symbol updated in an earlier block, another never updated
C17_Witness ==
    \E s \in Symbols, t \in Symbols :
        /\ priceHistory[s] # <<>> /\ lastUpdateTime[s] > 0 /\ lastUpdateTime[s] < now
        /\ priceHistory[t] = <<>> /\ lastUpdateTime[t] = 0

\* C18: no step shortens a history; a successful update of a history of length
\* L leaves it with min(L + 1, 24) samples, and when L < 24 every sample stays
\* at its index; a history of 24 therefore stays at 24.
C18_EvictOnlyAtCapacity ==
    [][ \A s \in Symbols :
           LET h == priceHistory[s]
               g == priceHistory'[s]
           IN  /\ Len(g) >= Len(h)
               /\ Len(h) = 24 => Len(g) = 24
               /\ (last'.op = "updatePriceData" /\ last'.out.status = "ok"
                      /\ last'.arg = s) =>
                     /\ Len(g) = Min(Len(h) + 1, 24)
                     /\ Len(h) < 24 => SubSeq(g, 1, Len(h)) = h ]_vars

\* the update that filled the history to exactly 24, nothing evicted yet
C18_Witness ==
    /\ UpdateSucceeded
    /\ Len(inserted[last.arg]) = 24
    /\ priceHistory[last.arg] = inserted[last.arg]

====
